---- MODULE Spec2Model ----
(***************************************************************************)
(* Model of platforms/pico/eeprom.c: an EEPROM emulated on NOR flash by a  *)
(* one's-complement snapshot ("compacted area") followed by a write log.   *)
(*                                                                         *)
(* The machine state is the RAM image WordBuf, the flash half-words of the *)
(* emulation pages and the pointer empty_slot.  Every C function is an     *)
(* operator from a machine record to a machine record; every public        *)
(* function is one action.  Addresses are byte addresses as in the C code; *)
(* flash is indexed by half-word offset from FEE_PAGE_BASE_ADDRESS.        *)
(***************************************************************************)
EXTENDS Integers, Sequences, FiniteSets, TLC

(***************************************************************************)
(* Configuration (eeprom_pico_defs.h is not part of the sources; the       *)
(* values are a small configuration satisfying the #if checks of lines     *)
(* 137-201: even density above FEE_BYTE_RANGE, log of magic + 2 slots).    *)
(***************************************************************************)
FEE_PAGE_SIZE == 70
FEE_PAGE_COUNT == 2
FEE_PAGE_BASE_ADDRESS == 4096
FEE_DENSITY_BYTES == 132

FEE_WORD_ENCODING == 32768
FEE_VALUE_NEXT == 24576
FEE_VALUE_RESERVED == 16384
FEE_VALUE_ENCODED == 8192
FEE_BYTE_RANGE == 128
FEE_EMPTY_WORD == 65535
FEE_MAGIC_DWORD == 541069294

FEE_DENSITY_MAX_SIZE == FEE_PAGE_COUNT * FEE_PAGE_SIZE
FEE_WRITE_LOG_BYTES == FEE_PAGE_COUNT * FEE_PAGE_SIZE - FEE_DENSITY_BYTES
FEE_COMPACTED_BASE_ADDRESS == FEE_PAGE_BASE_ADDRESS
FEE_COMPACTED_LAST_ADDRESS == FEE_COMPACTED_BASE_ADDRESS + FEE_DENSITY_BYTES
FEE_WRITE_LOG_BASE_ADDRESS == FEE_COMPACTED_LAST_ADDRESS
FEE_WRITE_LOG_LAST_ADDRESS == FEE_WRITE_LOG_BASE_ADDRESS + FEE_WRITE_LOG_BYTES

(***************************************************************************)
(* FLASH_Status (flash_pico.h is not part of the sources).  The code needs *)
(* FLASH_COMPLETE to differ from 0: eeprom_write_direct_entry returns 0    *)
(* for "nothing done" and FLASH_COMPLETE for "done", and the callers test  *)
(* (!status) and (status != 0 && status != FLASH_COMPLETE).                *)
(***************************************************************************)
FLASH_ERROR_PG == 2
FLASH_ERROR_WRP == 3
FLASH_COMPLETE == 5
FLASH_BAD_ADDRESS == 7

(***************************************************************************)
(* 16-bit arithmetic                                                       *)
(***************************************************************************)
U16(x) == x % 65536
U8(x) == x % 256
Not16(x) == 65535 - U16(x)

RECURSIVE BitAnd(_, _)
BitAnd(x, y) ==
    IF x = 0 \/ y = 0 THEN 0
    ELSE (x % 2) * (y % 2) + 2 * BitAnd(x \div 2, y \div 2)

RECURSIVE BitOr(_, _)
BitOr(x, y) ==
    IF x = 0 THEN y
    ELSE IF y = 0 THEN x
    ELSE (IF x % 2 = 1 \/ y % 2 = 1 THEN 1 ELSE 0) + 2 * BitOr(x \div 2, y \div 2)

(* The(S): the element of a singleton set.  The({e(x) : x \in {v}}) is e    *)
(* with x bound to the value of v, computed once.                          *)
The(S) == CHOOSE r \in S : TRUE

(***************************************************************************)
(* RAM image: WordBuf is the half-word array, DataBuf its byte view        *)
(* (little-endian target).                                                 *)
(***************************************************************************)
WordIdx == 0 .. (FEE_DENSITY_BYTES \div 2 - 1)
FlashIdx == 0 .. (FEE_DENSITY_MAX_SIZE \div 2 - 1)

DataBufGet(buf, a) ==
    IF a % 2 = 0 THEN buf[a \div 2] % 256 ELSE buf[a \div 2] \div 256

(* The byte lanes of a half-word exchanged                                 *)
DataBufSet_SwappedLane(buf, a, b) ==
    [buf EXCEPT ![a \div 2] =
        IF a % 2 = 1 THEN (buf[a \div 2] \div 256) * 256 + b
        ELSE (buf[a \div 2] % 256) + 256 * b]

DataBufSet(buf, a, b) ==
    [buf EXCEPT ![a \div 2] =
        IF a % 2 = 0 THEN (buf[a \div 2] \div 256) * 256 + b
        ELSE (buf[a \div 2] % 256) + 256 * b]

WordGet(buf, a) == buf[a \div 2]
WordSet(buf, a, w) == [buf EXCEPT ![a \div 2] = w]

(***************************************************************************)
(* Flash driver (flash_pico.c is not part of the sources).                 *)
(* A machine record m has the fields                                       *)
(*   WordBuf, flash, empty_slot : the program state                        *)
(*   st                         : the value the running function returns   *)
(*   locked                     : driver lock state                        *)
(*   line                       : source line of the driver call site      *)
(*   drv                        : driver calls made by the running         *)
(*                                operation, in order                      *)
(*   cmp                        : RAM image and flash at the return of     *)
(*                                the eeprom_compact calls of the running  *)
(*                                operation                                *)
(*   off                        : power has been lost during the operation *)
(*   wdt                        : watchdog_update calls made by the        *)
(*                                running operation                        *)
(* An environment record env fixes what the hardware does in one           *)
(* operation: f1/f2 are the ordinals of the FLASH_ProgramHalfWord calls    *)
(* that fail with FLASH_ERROR_PG / FLASH_ERROR_WRP (0: none), landed says  *)
(* whether a failing program still changes the cell, nor is the outcome of *)
(* programming a cell that is not erased, and cut is the ordinal of the    *)
(* FLASH_ProgramHalfWord call after which power is lost (0: never).        *)
(***************************************************************************)
FlashRead(fl, addr) == fl[(addr - FEE_PAGE_BASE_ADDRESS) \div 2]

NProg(drv) == Cardinality({i \in 1 .. Len(drv) : drv[i].fn = "program"})

ProgramStatus(env, k) ==
    IF k = env.f1 THEN FLASH_ERROR_PG
    ELSE IF k = env.f2 THEN FLASH_ERROR_WRP
    ELSE FLASH_COMPLETE

ProgramCell(env, old, value) ==
    IF old = FEE_EMPTY_WORD THEN value
    ELSE IF env.nor = "and" THEN BitAnd(old, value)
    ELSE IF env.nor = "keep" THEN old
    ELSE value

At(m, line) == [m EXCEPT !.line = line]

FLASH_ProgramHalfWord(m_in, env, addr, value) ==
    The({
      IF m.off THEN [m EXCEPT !.st = FLASH_COMPLETE] ELSE
      LET k == NProg(m.drv) + 1
          st == ProgramStatus(env, k)
          i == (addr - FEE_PAGE_BASE_ADDRESS) \div 2
          old == m.flash[i]
          new == IF st = FLASH_COMPLETE \/ env.landed
                 THEN ProgramCell(env, old, U16(value)) ELSE old
      IN  [m EXCEPT !.flash = [m.flash EXCEPT ![i] = new],
                    !.drv = Append(m.drv, [fn |-> "program", addr |-> addr,
                                       value |-> U16(value), old |-> old,
                                       status |-> st, locked |-> m.locked,
                                       line |-> m.line]),
                    !.off = (k = env.cut),
                    !.st = st]
      : m \in {m_in}})

(* Erased(fl, page): fl with the cells of the page at `page` set to 0xFFFF  *)
(* (@@ <<>> makes the result an explicit function).                        *)
Erased(fl, page) ==
    [i \in FlashIdx |->
        IF page <= FEE_PAGE_BASE_ADDRESS + 2 * i
           /\ FEE_PAGE_BASE_ADDRESS + 2 * i < page + FEE_PAGE_SIZE
        THEN FEE_EMPTY_WORD ELSE fl[i]] @@ <<>>

FLASH_ErasePage(m_in, page) ==
    The({
      IF m.off THEN m ELSE
      [m EXCEPT !.flash = Erased(m.flash, page),
                !.drv = Append(m.drv, [fn |-> "erase", addr |-> page,
                                       value |-> 0, old |-> 0,
                                       status |-> FLASH_COMPLETE,
                                       locked |-> m.locked, line |-> m.line])]
      : m \in {m_in}})

FLASH_Unlock(m) == [m EXCEPT !.locked = FALSE]
FLASH_Lock(m) == [m EXCEPT !.locked = TRUE]

(***************************************************************************)
(* eeprom_clear: erase every page, write the magic, reset empty_slot.      *)
(***************************************************************************)
RECURSIVE ErasePages(_, _)
ErasePages(m_in, page_num) ==
    The({
      IF page_num < FEE_PAGE_COUNT
      THEN ErasePages(FLASH_ErasePage(At(m, 377),
                                      FEE_PAGE_BASE_ADDRESS + page_num * FEE_PAGE_SIZE),
                      page_num + 1)
      ELSE m
      : m \in {m_in}})

eeprom_clear(m, env) ==
    LET m1 == ErasePages(FLASH_Unlock(m), 0)
        m2 == FLASH_ProgramHalfWord(At(m1, 380), env, FEE_WRITE_LOG_BASE_ADDRESS,
                                    FEE_MAGIC_DWORD % 65536)
        m3 == FLASH_ProgramHalfWord(At(m2, 381), env, FEE_WRITE_LOG_BASE_ADDRESS + 2,
                                    FEE_MAGIC_DWORD \div 65536)
    IN  [FLASH_Lock(m3) EXCEPT !.empty_slot = FEE_WRITE_LOG_BASE_ADDRESS]

(***************************************************************************)
(* EEPROM_Init: load the complement of the snapshot, check the magic,      *)
(* replay the log.                                                         *)
(***************************************************************************)
LoadCompacted(fl) ==
    [i \in WordIdx |-> Not16(FlashRead(fl, FEE_COMPACTED_BASE_ADDRESS + 2 * i))] @@ <<>>

(* The 32-bit little-endian load of line 300, kept as its two half-words   *)
MagicRead(fl) ==
    <<FlashRead(fl, FEE_WRITE_LOG_BASE_ADDRESS),
      FlashRead(fl, FEE_WRITE_LOG_BASE_ADDRESS + 2)>>

MagicWords == <<FEE_MAGIC_DWORD % 65536, FEE_MAGIC_DWORD \div 65536>>

ReplayStore(buf, address, wvalue) ==
    IF address < FEE_DENSITY_BYTES THEN WordSet(buf, address, wvalue) ELSE buf

(* watchdog_update at the head of an iteration of the replay loop: one     *)
(* more call counted in the result r of the iteration                      *)
Kick(r_in) == The({[r EXCEPT !.wdt = r.wdt + 1] : r \in {r_in}})

RECURSIVE Replay(_, _, _), ReplayFrom(_, _, _)
Replay(buf_in, fl, log_addr) ==
    The({ReplayFrom(buf, fl, log_addr) : buf \in {buf_in}})

(* The replay loop leaving at a Reserved entry instead of skipping it      *)
ReplayFrom_StopAtReserved(buf, fl, log_addr) ==
    IF log_addr >= FEE_WRITE_LOG_LAST_ADDRESS
    THEN [WordBuf |-> buf, log_addr |-> log_addr, wdt |-> 0]
    ELSE Kick(
      LET address == FlashRead(fl, log_addr) IN
      IF address = FEE_EMPTY_WORD
      THEN [WordBuf |-> buf, log_addr |-> log_addr, wdt |-> 0]
      ELSE IF (address \div FEE_WORD_ENCODING) % 2 = 0
      THEN Replay(DataBufSet(buf, address \div 256, U8(address)), fl, log_addr + 2)
      ELSE IF (address \div FEE_VALUE_ENCODED) % 4 = 3
      THEN LET next_addr == log_addr + 2 IN
           IF next_addr >= FEE_WRITE_LOG_LAST_ADDRESS
           THEN [WordBuf |-> buf, log_addr |-> next_addr, wdt |-> 0]
           ELSE LET wvalue == Not16(FlashRead(fl, next_addr)) IN
                IF wvalue = 0
                THEN Replay(buf, fl, next_addr + 2)
                ELSE Replay(ReplayStore(buf,
                                U16(U16((address % 8192) * 2) + FEE_BYTE_RANGE),
                                wvalue),
                            fl, next_addr + 2)
      ELSE IF (address \div FEE_VALUE_RESERVED) % 2 = 1
      THEN [WordBuf |-> buf, log_addr |-> log_addr, wdt |-> 0]
      ELSE Replay(ReplayStore(buf, U16((address % 8192) * 2),
                              (address \div FEE_VALUE_ENCODED) % 2),
                  fl, log_addr + 2))

ReplayFrom(buf, fl, log_addr) ==
    IF log_addr >= FEE_WRITE_LOG_LAST_ADDRESS
    THEN [WordBuf |-> buf, log_addr |-> log_addr, wdt |-> 0]
    ELSE Kick(
      LET address == FlashRead(fl, log_addr) IN
      IF address = FEE_EMPTY_WORD
      THEN [WordBuf |-> buf, log_addr |-> log_addr, wdt |-> 0]
      ELSE IF (address \div FEE_WORD_ENCODING) % 2 = 0
      THEN Replay(DataBufSet(buf, address \div 256, U8(address)), fl, log_addr + 2)
      ELSE IF (address \div FEE_VALUE_ENCODED) % 4 = 3
      THEN LET next_addr == log_addr + 2 IN
           IF next_addr >= FEE_WRITE_LOG_LAST_ADDRESS
           THEN [WordBuf |-> buf, log_addr |-> next_addr, wdt |-> 0]
           ELSE LET wvalue == Not16(FlashRead(fl, next_addr)) IN
                IF wvalue = 0
                THEN Replay(buf, fl, next_addr + 2)
                ELSE Replay(ReplayStore(buf,
                                U16(U16((address % 8192) * 2) + FEE_BYTE_RANGE),
                                wvalue),
                            fl, next_addr + 2)
      ELSE IF (address \div FEE_VALUE_RESERVED) % 2 = 1
      THEN Replay(buf, fl, log_addr + 2)
      ELSE Replay(ReplayStore(buf, U16((address % 8192) * 2),
                              (address \div FEE_VALUE_ENCODED) % 2),
                  fl, log_addr + 2))

(* EEPROM_Init checking the magic, and clearing, before it loads the RAM   *)
(* image from the snapshot                                                 *)
EEPROM_Init_ClearFirst(m_in, env) ==
    The({
      The({
        LET m1 == [m2 EXCEPT !.WordBuf = LoadCompacted(m2.flash)]
            r == Replay(m1.WordBuf, m1.flash, FEE_WRITE_LOG_BASE_ADDRESS + 4)
        IN  [m1 EXCEPT !.WordBuf = r.WordBuf,
                       !.empty_slot = r.log_addr,
                       !.wdt = m1.wdt + r.wdt,
                       !.st = FEE_DENSITY_BYTES]
        : m2 \in {IF MagicRead(m.flash) # MagicWords
                  THEN eeprom_clear(m, env) ELSE m}})
      : m \in {m_in}})

EEPROM_Init(m_in, env) ==
    The({
      LET m1 == [m EXCEPT !.WordBuf = LoadCompacted(m.flash)] IN
      The({
        LET r == Replay(m2.WordBuf, m2.flash, FEE_WRITE_LOG_BASE_ADDRESS + 4)
        IN  [m2 EXCEPT !.WordBuf = r.WordBuf,
                       !.empty_slot = r.log_addr,
                       !.wdt = m2.wdt + r.wdt,
                       !.st = FEE_DENSITY_BYTES]
        : m2 \in {IF MagicRead(m1.flash) # MagicWords
                  THEN eeprom_clear(m1, env) ELSE m1}})
      : m \in {m_in}})

(***************************************************************************)
(* EEPROM_Erase                                                            *)
(***************************************************************************)
(* EEPROM_Erase without the EEPROM_Init that follows eeprom_clear          *)
EEPROM_Erase_NoInit(m, env) == eeprom_clear(m, env)

EEPROM_Erase(m, env) == EEPROM_Init(eeprom_clear(m, env), env)

(***************************************************************************)
(* eeprom_compact: clear, then program the complement of every non-zero    *)
(* RAM half-word into the snapshot.  Returns the last failing status.      *)
(***************************************************************************)
(* The loop of lines 411-421 skips the half-words that are 0: NextNonZero  *)
(* is the first dest at or after `from` whose RAM half-word is not 0, or   *)
(* FEE_COMPACTED_LAST_ADDRESS when the loop ends without another program.  *)
NextNonZero(buf, from) ==
    LET todo == {d \in from .. FEE_COMPACTED_LAST_ADDRESS - 1 :
                    /\ (d - FEE_COMPACTED_BASE_ADDRESS) % 2 = 0
                    /\ WordGet(buf, d - FEE_COMPACTED_BASE_ADDRESS) # 0}
    IN  IF todo = {} THEN FEE_COMPACTED_LAST_ADDRESS
        ELSE CHOOSE d \in todo : \A e \in todo : d <= e

(* The loop programming the RAM half-word itself, not its complement       *)
RECURSIVE CompactLoop_NoComplement(_, _, _, _)
CompactLoop_NoComplement(m_in, env, dest_in, status_in) ==
    The({
      IF dest < FEE_COMPACTED_LAST_ADDRESS
      THEN LET value == WordGet(m.WordBuf, dest - FEE_COMPACTED_BASE_ADDRESS) IN
           The({CompactLoop_NoComplement(m1, env, dest + 2,
                            IF m1.st # FLASH_COMPLETE THEN m1.st ELSE final_status)
                : m1 \in {FLASH_ProgramHalfWord(At(m, 416), env, dest, value)}})
      ELSE [m EXCEPT !.st = final_status]
      : m \in {m_in}, final_status \in {status_in},
        dest \in {NextNonZero(m_in.WordBuf, dest_in)}})

RECURSIVE CompactLoop(_, _, _, _)
CompactLoop(m_in, env, dest_in, status_in) ==
    The({
      IF dest < FEE_COMPACTED_LAST_ADDRESS
      THEN LET value == WordGet(m.WordBuf, dest - FEE_COMPACTED_BASE_ADDRESS) IN
           The({CompactLoop(m1, env, dest + 2,
                            IF m1.st # FLASH_COMPLETE THEN m1.st ELSE final_status)
                : m1 \in {FLASH_ProgramHalfWord(At(m, 416), env, dest, Not16(value))}})
      ELSE [m EXCEPT !.st = final_status]
      : m \in {m_in}, final_status \in {status_in},
        dest \in {NextNonZero(m_in.WordBuf, dest_in)}})

(* eeprom_compact without the FLASH_Unlock that follows eeprom_clear       *)
eeprom_compact_NoUnlock(m_in, env) ==
    The({
      [m2 EXCEPT !.cmp = Append(m2.cmp, [WordBuf |-> m2.WordBuf, flash |-> m2.flash,
                                         empty_slot |-> m2.empty_slot])]
      : m2 \in {FLASH_Lock(CompactLoop(eeprom_clear(m_in, env), env,
                                       FEE_COMPACTED_BASE_ADDRESS, FLASH_COMPLETE))}})

eeprom_compact(m_in, env) ==
    The({
      [m2 EXCEPT !.cmp = Append(m2.cmp, [WordBuf |-> m2.WordBuf, flash |-> m2.flash,
                                         empty_slot |-> m2.empty_slot])]
      : m2 \in {FLASH_Lock(CompactLoop(FLASH_Unlock(eeprom_clear(m_in, env)), env,
                                       FEE_COMPACTED_BASE_ADDRESS, FLASH_COMPLETE))}})

(***************************************************************************)
(* eeprom_write_direct_entry: returns 0 when the snapshot half-word is     *)
(* already programmed.                                                     *)
(***************************************************************************)
(* eeprom_write_direct_entry programming the complement even when it is   *)
(* 0xFFFF                                                                  *)
eeprom_write_direct_entry_NoShortcut(m_in, env, Address) ==
    The({
      LET directAddress == FEE_COMPACTED_BASE_ADDRESS + (Address - (Address % 2)) IN
      IF FlashRead(m.flash, directAddress) = FEE_EMPTY_WORD
      THEN LET value == Not16(WordGet(m.WordBuf, (Address - (Address % 2)))) IN
           FLASH_Lock(FLASH_ProgramHalfWord(At(FLASH_Unlock(m), 443), env,
                                            directAddress, value))
      ELSE [m EXCEPT !.st = 0]
      : m \in {m_in}})

eeprom_write_direct_entry(m_in, env, Address) ==
    The({
      LET directAddress == FEE_COMPACTED_BASE_ADDRESS + (Address - (Address % 2)) IN
      IF FlashRead(m.flash, directAddress) = FEE_EMPTY_WORD
      THEN LET value == Not16(WordGet(m.WordBuf, (Address - (Address % 2)))) IN
           IF value = FEE_EMPTY_WORD
           THEN [m EXCEPT !.st = FLASH_COMPLETE]
           ELSE FLASH_Lock(FLASH_ProgramHalfWord(At(FLASH_Unlock(m), 443), env,
                                                 directAddress, value))
      ELSE [m EXCEPT !.st = 0]
      : m \in {m_in}})

(***************************************************************************)
(* eeprom_write_log_word_entry / eeprom_write_log_byte_entry               *)
(***************************************************************************)
(* eeprom_write_log_word_entry without the FEE_BYTE_RANGE rebase of a      *)
(* Word-Next address                                                       *)
eeprom_write_log_word_entry_NoRebase(m_in, env, Address) ==
    The({
      LET value == WordGet(m.WordBuf, Address)
          encoding == IF value <= 1
                      THEN BitOr(FEE_WORD_ENCODING, U16(value * 8192))
                      ELSE BitOr(FEE_WORD_ENCODING, FEE_VALUE_NEXT)
          entry_size == IF value <= 1 THEN 2 ELSE 4
          Address1 == Address
      IN
      IF m.empty_slot > FEE_WRITE_LOG_LAST_ADDRESS - entry_size
      THEN eeprom_compact(m, env)
      ELSE
        LET Address2 == BitOr(Address1 \div 2, encoding) IN
        The({
          LET m2 == [m1 EXCEPT !.empty_slot = m1.empty_slot + 2] IN
          IF encoding = BitOr(FEE_WORD_ENCODING, FEE_VALUE_NEXT)
          THEN The({
                 LET m4 == [m3 EXCEPT !.empty_slot = m3.empty_slot + 2]
                 IN  [FLASH_Lock(m4) EXCEPT
                        !.st = IF m3.st # FLASH_COMPLETE THEN m3.st ELSE m1.st]
                 : m3 \in {FLASH_ProgramHalfWord(At(m2, 490), env, m2.empty_slot,
                                                 Not16(value))}})
          ELSE [FLASH_Lock(m2) EXCEPT !.st = m1.st]
          : m1 \in {FLASH_ProgramHalfWord(At(FLASH_Unlock(m), 485), env,
                                          m.empty_slot, Address2)}})
      : m \in {m_in}})

eeprom_write_log_word_entry(m_in, env, Address) ==
    The({
      LET value == WordGet(m.WordBuf, Address)
          encoding == IF value <= 1
                      THEN BitOr(FEE_WORD_ENCODING, U16(value * 8192))
                      ELSE BitOr(FEE_WORD_ENCODING, FEE_VALUE_NEXT)
          entry_size == IF value <= 1 THEN 2 ELSE 4
          Address1 == IF value <= 1 THEN Address ELSE U16(Address - FEE_BYTE_RANGE)
      IN
      IF m.empty_slot > FEE_WRITE_LOG_LAST_ADDRESS - entry_size
      THEN eeprom_compact(m, env)
      ELSE
        LET Address2 == BitOr(Address1 \div 2, encoding) IN
        The({
          LET m2 == [m1 EXCEPT !.empty_slot = m1.empty_slot + 2] IN
          IF encoding = BitOr(FEE_WORD_ENCODING, FEE_VALUE_NEXT)
          THEN The({
                 LET m4 == [m3 EXCEPT !.empty_slot = m3.empty_slot + 2]
                 IN  [FLASH_Lock(m4) EXCEPT
                        !.st = IF m3.st # FLASH_COMPLETE THEN m3.st ELSE m1.st]
                 : m3 \in {FLASH_ProgramHalfWord(At(m2, 490), env, m2.empty_slot,
                                                 Not16(value))}})
          ELSE [FLASH_Lock(m2) EXCEPT !.st = m1.st]
          : m1 \in {FLASH_ProgramHalfWord(At(FLASH_Unlock(m), 485), env,
                                          m.empty_slot, Address2)}})
      : m \in {m_in}})

(* eeprom_write_log_byte_entry programming at empty_slot without advancing *)
(* it                                                                      *)
eeprom_write_log_byte_entry_NoAdvance(m_in, env, Address) ==
    The({
      IF m.empty_slot >= FEE_WRITE_LOG_LAST_ADDRESS
      THEN eeprom_compact(m, env)
      ELSE
        LET value == U16(BitOr(Address * 256, DataBufGet(m.WordBuf, Address))) IN
        The({[FLASH_Lock(m1) EXCEPT !.st = m1.st]
             : m1 \in {FLASH_ProgramHalfWord(At(FLASH_Unlock(m), 516), env,
                                             m.empty_slot, value)}})
      : m \in {m_in}})

(* eeprom_write_log_byte_entry falling through to the append after it has *)
(* compacted                                                               *)
eeprom_write_log_byte_entry_CompactThenAppend(m_in, env, Address) ==
    The({
      LET value == U16(BitOr(Address * 256, DataBufGet(m.WordBuf, Address))) IN
      The({[FLASH_Lock(m1) EXCEPT !.empty_slot = m1.empty_slot + 2, !.st = m1.st]
           : m1 \in {FLASH_ProgramHalfWord(At(FLASH_Unlock(m), 516), env,
                                           m.empty_slot, value)}})
      : m \in {IF m_in.empty_slot >= FEE_WRITE_LOG_LAST_ADDRESS
               THEN eeprom_compact(m_in, env) ELSE m_in}})

eeprom_write_log_byte_entry(m_in, env, Address) ==
    The({
      IF m.empty_slot >= FEE_WRITE_LOG_LAST_ADDRESS
      THEN eeprom_compact(m, env)
      ELSE
        LET value == U16(BitOr(Address * 256, DataBufGet(m.WordBuf, Address))) IN
        The({[FLASH_Lock(m1) EXCEPT !.empty_slot = m1.empty_slot + 2, !.st = m1.st]
             : m1 \in {FLASH_ProgramHalfWord(At(FLASH_Unlock(m), 516), env,
                                             m.empty_slot, value)}})
      : m \in {m_in}})

(***************************************************************************)
(* EEPROM_WriteDataByte / EEPROM_WriteDataWord                             *)
(***************************************************************************)
(* EEPROM_WriteDataByte accepting Address = FEE_DENSITY_BYTES as a no-op   *)
EEPROM_WriteDataByte_LateBound(m_in, env, Address, DataByte) ==
    The({
      IF Address > FEE_DENSITY_BYTES
      THEN [m EXCEPT !.st = FLASH_BAD_ADDRESS]
      ELSE IF Address = FEE_DENSITY_BYTES \/ DataBufGet(m.WordBuf, Address) = DataByte
      THEN [m EXCEPT !.st = 0]
      ELSE
        LET m1 == [m EXCEPT !.WordBuf = DataBufSet(m.WordBuf, Address, DataByte)] IN
        The({
          IF m2.st = 0
          THEN IF Address < FEE_BYTE_RANGE
               THEN eeprom_write_log_byte_entry(m2, env, Address)
               ELSE eeprom_write_log_word_entry(m2, env, (Address - (Address % 2)))
          ELSE m2
          : m2 \in {eeprom_write_direct_entry(m1, env, Address)}})
      : m \in {m_in}})

(* EEPROM_WriteDataByte returning FLASH_COMPLETE for an unchanged value    *)
EEPROM_WriteDataByte_SkipComplete(m_in, env, Address, DataByte) ==
    The({
      IF Address >= FEE_DENSITY_BYTES
      THEN [m EXCEPT !.st = FLASH_BAD_ADDRESS]
      ELSE IF DataBufGet(m.WordBuf, Address) = DataByte
      THEN [m EXCEPT !.st = FLASH_COMPLETE]
      ELSE
        LET m1 == [m EXCEPT !.WordBuf = DataBufSet(m.WordBuf, Address, DataByte)] IN
        The({
          IF m2.st = 0
          THEN IF Address < FEE_BYTE_RANGE
               THEN eeprom_write_log_byte_entry(m2, env, Address)
               ELSE eeprom_write_log_word_entry(m2, env, (Address - (Address % 2)))
          ELSE m2
          : m2 \in {eeprom_write_direct_entry(m1, env, Address)}})
      : m \in {m_in}})

(* EEPROM_WriteDataByte without the skip of an unchanged value             *)
EEPROM_WriteDataByte_NoSkip(m_in, env, Address, DataByte) ==
    The({
      IF Address >= FEE_DENSITY_BYTES
      THEN [m EXCEPT !.st = FLASH_BAD_ADDRESS]
      ELSE
        LET m1 == [m EXCEPT !.WordBuf = DataBufSet(m.WordBuf, Address, DataByte)] IN
        The({
          IF m2.st = 0
          THEN IF Address < FEE_BYTE_RANGE
               THEN eeprom_write_log_byte_entry(m2, env, Address)
               ELSE eeprom_write_log_word_entry(m2, env, (Address - (Address % 2)))
          ELSE m2
          : m2 \in {eeprom_write_direct_entry(m1, env, Address)}})
      : m \in {m_in}})

EEPROM_WriteDataByte(m_in, env, Address, DataByte) ==
    The({
      IF Address >= FEE_DENSITY_BYTES
      THEN [m EXCEPT !.st = FLASH_BAD_ADDRESS]
      ELSE IF DataBufGet(m.WordBuf, Address) = DataByte
      THEN [m EXCEPT !.st = 0]
      ELSE
        LET m1 == [m EXCEPT !.WordBuf = DataBufSet(m.WordBuf, Address, DataByte)] IN
        The({
          IF m2.st = 0
          THEN IF Address < FEE_BYTE_RANGE
               THEN eeprom_write_log_byte_entry(m2, env, Address)
               ELSE eeprom_write_log_word_entry(m2, env, (Address - (Address % 2)))
          ELSE m2
          : m2 \in {eeprom_write_direct_entry(m1, env, Address)}})
      : m \in {m_in}})

EEPROM_WriteDataWord(m_in, env, Address, DataWord) ==
    The({
      IF Address >= FEE_DENSITY_BYTES
      THEN [m EXCEPT !.st = FLASH_BAD_ADDRESS]
      ELSE IF Address % 2 = 1
      THEN The({
             The({[m2 EXCEPT !.st = IF m2.st # FLASH_COMPLETE THEN m2.st ELSE m1.st]
                  : m2 \in {EEPROM_WriteDataByte(m1, env, U16(Address + 1),
                                                 DataWord \div 256)}})
             : m1 \in {EEPROM_WriteDataByte(m, env, Address, U8(DataWord))}})
      ELSE
        LET oldValue == WordGet(m.WordBuf, Address) IN
        IF oldValue = DataWord
        THEN [m EXCEPT !.st = 0]
        ELSE
          LET m1 == [m EXCEPT !.WordBuf = WordSet(m.WordBuf, Address, DataWord)] IN
          The({
            IF m2.st = 0
            THEN IF Address < FEE_BYTE_RANGE
                 THEN The({
                        The({[m4 EXCEPT !.st = IF m4.st # FLASH_COMPLETE
                                               THEN m4.st ELSE m3.st]
                             : m4 \in {IF oldValue \div 256 # DataWord \div 256
                                       THEN eeprom_write_log_byte_entry(m3, env,
                                                                        Address + 1)
                                       ELSE [m3 EXCEPT !.st = FLASH_COMPLETE]}})
                        : m3 \in {IF U8(oldValue) # U8(DataWord)
                                  THEN eeprom_write_log_byte_entry(m2, env, Address)
                                  ELSE [m2 EXCEPT !.st = FLASH_COMPLETE]}})
                 ELSE eeprom_write_log_word_entry(m2, env, Address)
            ELSE m2
            : m2 \in {eeprom_write_direct_entry(m1, env, Address)}})
      : m \in {m_in}})

(***************************************************************************)
(* EEPROM_ReadDataByte / EEPROM_ReadDataWord                               *)
(***************************************************************************)
EEPROM_ReadDataByte(buf, Address) ==
    IF Address < FEE_DENSITY_BYTES THEN DataBufGet(buf, Address) ELSE 255

(* EEPROM_ReadDataWord assembling an unaligned word high byte first        *)
EEPROM_ReadDataWord_BigEndian(buf, Address) ==
    IF Address < FEE_DENSITY_BYTES - 1
    THEN IF Address % 2 = 1
         THEN BitOr(DataBufGet(buf, Address) * 256, DataBufGet(buf, Address + 1))
         ELSE WordGet(buf, Address)
    ELSE 65535

EEPROM_ReadDataWord(buf, Address) ==
    IF Address < FEE_DENSITY_BYTES - 1
    THEN IF Address % 2 = 1
         THEN BitOr(DataBufGet(buf, Address), DataBufGet(buf, Address + 1) * 256)
         ELSE WordGet(buf, Address)
    ELSE 65535

(***************************************************************************)
(* Bounds of the exploration                                               *)
(*   MaxByte    : byte values written are 0 .. MaxByte                     *)
(*   MaxChanges : operations that erase or program flash, per run          *)
(*   MaxCut     : a power loss during a write comes after at most this     *)
(*                many FLASH_ProgramHalfWord calls of the write            *)
(*   MaxFailAt  : a failing FLASH_ProgramHalfWord is among the first       *)
(*                MaxFailAt calls of an operation                          *)
(***************************************************************************)
MaxByte == 1
MaxChanges == 4
MaxCut == 3
MaxFailAt == 4

ByteVals == 0 .. MaxByte
WordVals == {lo + 256 * hi : lo \in ByteVals, hi \in ByteVals}
ByteAddrs == {1, FEE_BYTE_RANGE + 1, FEE_DENSITY_BYTES - 1, FEE_DENSITY_BYTES}
WordAddrs == {0, FEE_BYTE_RANGE, FEE_BYTE_RANGE + 1, FEE_DENSITY_BYTES - 1,
              FEE_DENSITY_BYTES, 65535}
ReadAddrs == {0, 1, FEE_BYTE_RANGE + 1, FEE_DENSITY_BYTES - 2, FEE_DENSITY_BYTES - 1,
              FEE_DENSITY_BYTES, 65535}

NoFail == [f1 |-> 0, f2 |-> 0, landed |-> FALSE, nor |-> "and", cut |-> 0]
NorOutcomes == {"and", "keep", "replace"}
Hardware == {[NoFail EXCEPT !.nor = n] : n \in NorOutcomes}
Failing == {[NoFail EXCEPT !.f1 = p[1], !.f2 = p[2]] :
               p \in {q \in (0 .. MaxFailAt) \X (0 .. MaxFailAt) :
                         q[1] # q[2] \/ q[1] = 0}}

(***************************************************************************)
(* State machine.  The state is the program's: the RAM image, the flash    *)
(* pages, empty_slot and the driver lock.  started says EEPROM_Init has    *)
(* run, changes counts the operations that erased or programmed flash.     *)
(* Two history variables record what the callers did:                      *)
(*   shadow : per byte address, the value of the last write to it since    *)
(*            the store was erased or reloaded (0 on the erased store)     *)
(*   torn   : power has been lost in the middle of a write since the last  *)
(*            erase                                                        *)
(***************************************************************************)
VARIABLES WordBuf, flash, empty_slot, locked, started, changes, shadow, torn

vars == <<WordBuf, flash, empty_slot, locked, started, changes, shadow, torn>>

Cur == [WordBuf |-> WordBuf, flash |-> flash, empty_slot |-> empty_slot,
        st |-> 0, locked |-> locked, line |-> 0, drv |-> <<>>, cmp |-> <<>>,
        off |-> FALSE, wdt |-> 0]

ErasedFlash == [i \in FlashIdx |-> FEE_EMPTY_WORD]
ZeroBuf == [i \in WordIdx |-> 0]

ByteIdx == 0 .. (FEE_DENSITY_BYTES - 1)
ZeroBytes == [a \in ByteIdx |-> 0]

(* The byte at address a of the RAM image, by arithmetic on the half-word  *)
RamByte(buf, a) == (buf[a \div 2] \div (IF a % 2 = 0 THEN 1 ELSE 256)) % 256
ByteView(buf) == [a \in ByteIdx |-> RamByte(buf, a)]

(* What the caller wrote: bytes a (and a + 1 for a word) when in range     *)
ShadowByte(sh, a, v) == IF a \in ByteIdx THEN [sh EXCEPT ![a] = v] ELSE sh
ShadowWord(sh, a, w) ==
    IF a \in ByteIdx
    THEN ShadowByte(ShadowByte(sh, a, w % 256), a + 1, w \div 256)
    ELSE sh

(* Power-up on the flash that m leaves behind: RAM and pointer are lost.   *)
PowerUp(m) ==
    EEPROM_Init([m EXCEPT !.WordBuf = ZeroBuf, !.empty_slot = 0, !.st = 0,
                           !.locked = TRUE, !.line = 0, !.drv = <<>>,
                           !.cmp = <<>>, !.off = FALSE, !.wdt = 0], NoFail)

Commit(m_in) ==
    \E m \in {m_in} :
    /\ Len(m.drv) = 0 \/ changes < MaxChanges
    /\ WordBuf' = m.WordBuf
    /\ flash' = m.flash
    /\ empty_slot' = m.empty_slot
    /\ locked' = m.locked
    /\ started' = TRUE
    /\ changes' = IF Len(m.drv) = 0 THEN changes ELSE changes + 1

Init ==
    /\ WordBuf = ZeroBuf
    /\ flash = ErasedFlash
    /\ empty_slot = 0
    /\ locked = TRUE
    /\ started = FALSE
    /\ changes = 0
    /\ shadow = ZeroBytes
    /\ torn = FALSE

(* Power-up, or power loss at the return of an operation followed by       *)
(* power-up.  The first power-up finds the erased store.                   *)
Boot ==
    /\ Commit(PowerUp(Cur))
    /\ shadow' = IF started THEN ByteView(WordBuf') ELSE shadow
    /\ UNCHANGED torn

(* The hardware's choice matters only to an operation that programs a     *)
(* cell that is not erased.                                                *)
Reprograms(m) ==
    \E i \in 1 .. Len(m.drv) :
        m.drv[i].fn = "program" /\ m.drv[i].old # FEE_EMPTY_WORD

WriteByte ==
    /\ started
    /\ \E a \in ByteAddrs, v \in ByteVals :
          /\ \E m \in {EEPROM_WriteDataByte(Cur, NoFail, a, v)} :
                IF Reprograms(m)
                THEN \E env \in Hardware : Commit(EEPROM_WriteDataByte(Cur, env, a, v))
                ELSE Commit(m)
          /\ shadow' = ShadowByte(shadow, a, v)
    /\ UNCHANGED torn

WriteWord ==
    /\ started
    /\ \E a \in WordAddrs, v \in WordVals :
          /\ \E m \in {EEPROM_WriteDataWord(Cur, NoFail, a, v)} :
                IF Reprograms(m)
                THEN \E env \in Hardware : Commit(EEPROM_WriteDataWord(Cur, env, a, v))
                ELSE Commit(m)
          /\ shadow' = ShadowWord(shadow, a, v)
    /\ UNCHANGED torn

(* Reads return a value and change nothing.                                *)
ReadByte ==
    /\ started
    /\ \E a \in ReadAddrs : EEPROM_ReadDataByte(WordBuf, a) \in 0 .. 255
    /\ UNCHANGED vars

ReadWord ==
    /\ started
    /\ \E a \in ReadAddrs : EEPROM_ReadDataWord(WordBuf, a) \in 0 .. 65535
    /\ UNCHANGED vars

Erase ==
    /\ started
    /\ Commit(EEPROM_Erase(Cur, NoFail))
    /\ shadow' = ZeroBytes
    /\ torn' = FALSE

(* Power is lost during a write, after its k-th FLASH_ProgramHalfWord, and *)
(* the device powers up again.                                             *)
CutByte(a, v, k, n) ==
    EEPROM_WriteDataByte(Cur, [NoFail EXCEPT !.cut = k, !.nor = n], a, v)
CutWord(a, v, k, n) ==
    EEPROM_WriteDataWord(Cur, [NoFail EXCEPT !.cut = k, !.nor = n], a, v)

PowerLossInWrite ==
    /\ started
    /\ changes < MaxChanges
    /\ \E k \in 1 .. MaxCut, n \in NorOutcomes :
          \/ \E a \in ByteAddrs, v \in ByteVals :
                \E m \in {CutByte(a, v, k, n)} :
                /\ m.off
                /\ Commit([PowerUp(m) EXCEPT !.drv = m.drv])
          \/ \E a \in WordAddrs, v \in WordVals :
                \E m \in {CutWord(a, v, k, n)} :
                /\ m.off
                /\ Commit([PowerUp(m) EXCEPT !.drv = m.drv])
    /\ shadow' = ByteView(WordBuf')
    /\ torn' = TRUE

Next ==
    \/ Boot
    \/ WriteByte
    \/ WriteWord
    \/ ReadByte
    \/ ReadWord
    \/ Erase
    \/ PowerLossInWrite

Spec == Init /\ [][Next]_vars

(***************************************************************************)
(* Claims.  A claim about what one call does is stated for the call made   *)
(* from every reachable state: Writes are the calls, DoWrite(m, env, w) is *)
(* the machine at the return of call w made in m under hardware env.       *)
(***************************************************************************)
Writes ==
    [kind : {"byte"}, a : ByteAddrs, v : ByteVals]
        \cup [kind : {"word"}, a : WordAddrs, v : WordVals]

DoWrite(m, env, w) ==
    IF w.kind = "byte"
    THEN EEPROM_WriteDataByte(m, env, w.a, w.v)
    ELSE EEPROM_WriteDataWord(m, env, w.a, w.v)

(* The flash programs of a call, in order                                  *)
Programs(m) == SelectSeq(m.drv, LAMBDA d : d.fn = "program")

(* C1. Replay equivalence: in every state reached by EEPROM_Init, in-range *)
(* writes whose programs all succeed and power-ups at the return of an     *)
(* operation (no power loss inside a write), a power loss now followed by  *)
(* EEPROM_Init reproduces the RAM image held now.                          *)
C1_ReplayEquivalence ==
    (started /\ ~torn) => PowerUp(Cur).WordBuf = WordBuf

(* C2. Round-trip: EEPROM_ReadDataByte(a) returns the value of the last     *)
(* write to a, or 0x00 on the erased store when a was never written,       *)
(* whichever path persisted the write.                                     *)
C2_RoundTrip ==
    started => \A a \in ByteIdx : EEPROM_ReadDataByte(WordBuf, a) = shadow[a]

(* A non-zero byte whose value is held by the log (the snapshot half-word  *)
(* is programmed to another value), next to a byte that reads 0x00.        *)
C2_Witness ==
    /\ started
    /\ \E a \in ByteIdx :
          /\ shadow[a] # 0
          /\ EEPROM_ReadDataByte(WordBuf, a) = shadow[a]
          /\ LoadCompacted(flash)[a \div 2] # WordBuf[a \div 2]
          /\ FlashRead(flash, FEE_COMPACTED_BASE_ADDRESS + (a - (a % 2))) # FEE_EMPTY_WORD
    /\ \E a \in ByteIdx : shadow[a] = 0 /\ EEPROM_ReadDataByte(WordBuf, a) = 0
    /\ empty_slot > FEE_WRITE_LOG_BASE_ADDRESS + 4

(* C3. Compaction preservation: whenever eeprom_compact has run to         *)
(* completion inside a write with every program succeeding, EEPROM_Init    *)
(* from the flash it leaves reloads the RAM image it compacted.            *)
C3_CompactionPreservation ==
    started =>
      \A w \in Writes : \A m \in {DoWrite(Cur, NoFail, w)} :
         \A i \in 1 .. Len(m.cmp) :
            PowerUp([m EXCEPT !.flash = m.cmp[i].flash]).WordBuf = m.cmp[i].WordBuf

(* A write that compacts a RAM image with two non-zero half-words          *)
C3_Witness ==
    /\ started
    /\ \E w \in Writes : \E m \in {DoWrite(Cur, NoFail, w)} :
          /\ Len(m.cmp) = 1
          /\ Cardinality({i \in WordIdx : m.cmp[1].WordBuf[i] # 0}) >= 2
          /\ PowerUp([m EXCEPT !.flash = m.cmp[1].flash]).WordBuf = m.cmp[1].WordBuf

(* A write cut by a power loss right after its first program, which is     *)
(* the primary word of a Word-Next entry whose value slot is still erased. *)
(* The writes taken are those that change RAM only for this entry.         *)
TornWordNext(m, w) ==
    /\ w.kind = "byte" \/ w.a % 2 = 0
    /\ m.off
    /\ Len(m.drv) = 1
    /\ m.drv[1].fn = "program"
    /\ m.drv[1].line = 485
    /\ m.drv[1].value \div FEE_VALUE_ENCODED = 7
    /\ m.drv[1].addr + 2 < FEE_WRITE_LOG_LAST_ADDRESS
    /\ FlashRead(m.flash, m.drv[1].addr + 2) = FEE_EMPTY_WORD

CutFirst(n) == [NoFail EXCEPT !.cut = 1, !.nor = n]

(* C4. Torn-write safety: when power is lost between the two programs of a *)
(* Word-Next entry, the next EEPROM_Init yields the RAM image held before  *)
(* that write.                                                             *)
C4_TornWriteSafety ==
    (started /\ ~torn) =>
      \A w \in Writes, n \in NorOutcomes : \A m \in {DoWrite(Cur, CutFirst(n), w)} :
         TornWordNext(m, w) => PowerUp(m).WordBuf = WordBuf

(* The same from the states whose flash still holds the RAM image, the    *)
(* magic, and empty_slot behind the magic: there the torn entry is skipped *)
C4_TornWriteSafety_IntactLog ==
    (started /\ MagicRead(flash) = MagicWords
             /\ empty_slot >= FEE_WRITE_LOG_BASE_ADDRESS + 4
             /\ PowerUp(Cur).WordBuf = WordBuf) =>
      \A w \in Writes, n \in NorOutcomes : \A m \in {DoWrite(Cur, CutFirst(n), w)} :
         TornWordNext(m, w) => PowerUp(m).WordBuf = WordBuf

(* Addresses at and beyond FEE_DENSITY_BYTES, up to the largest uint16_t    *)
OutOfRange == {FEE_DENSITY_BYTES, FEE_DENSITY_BYTES + 1, 65535}

Untouched(m) ==
    /\ m.WordBuf = WordBuf
    /\ m.flash = flash
    /\ m.empty_slot = empty_slot
    /\ m.drv = <<>>

(* C5. Bounds: a byte or word write with Address >= FEE_DENSITY_BYTES      *)
(* returns FLASH_BAD_ADDRESS and leaves the RAM image, the flash and       *)
(* empty_slot unchanged.                                                   *)
C5_Bounds ==
    started =>
      \A a \in OutOfRange, env \in Failing \cup Hardware :
         /\ \A v \in ByteVals : \A m \in {EEPROM_WriteDataByte(Cur, env, a, v)} :
               m.st = FLASH_BAD_ADDRESS /\ Untouched(m)
         /\ \A v \in WordVals : \A m \in {EEPROM_WriteDataWord(Cur, env, a, v)} :
               m.st = FLASH_BAD_ADDRESS /\ Untouched(m)

(* Out-of-range writes refused on a store with a non-zero RAM image, a     *)
(* programmed snapshot and a log entry                                     *)
C5_Witness ==
    /\ started
    /\ WordBuf # ZeroBuf
    /\ \E i \in WordIdx : flash[i] # FEE_EMPTY_WORD
    /\ empty_slot > FEE_WRITE_LOG_BASE_ADDRESS + 4
    /\ EEPROM_WriteDataByte(Cur, NoFail, FEE_DENSITY_BYTES, 1).st = FLASH_BAD_ADDRESS
    /\ EEPROM_WriteDataWord(Cur, NoFail, 65535, 257).st = FLASH_BAD_ADDRESS

(* Values a byte / word write can be asked to write again                  *)
SameByte(a) == EEPROM_ReadDataByte(WordBuf, a)
SameWord(a) == EEPROM_ReadDataWord(WordBuf, a)

NoFlashUse(m) ==
    /\ m.drv = <<>>
    /\ m.flash = flash
    /\ m.empty_slot = empty_slot

(* C6. Idempotence: a write of the value the RAM image already holds       *)
(* issues no program or erase, appends no log entry and leaves empty_slot  *)
(* unchanged; so the second of two equal writes in a row does not touch    *)
(* flash.                                                                  *)
C6_Idempotence ==
    started =>
      /\ \A a \in ByteIdx : \A m \in {EEPROM_WriteDataByte(Cur, NoFail, a, SameByte(a))} :
            NoFlashUse(m) /\ m.WordBuf = WordBuf
      /\ \A a \in ByteIdx \ {FEE_DENSITY_BYTES - 1} :
            \A m \in {EEPROM_WriteDataWord(Cur, NoFail, a, SameWord(a))} :
               NoFlashUse(m) /\ m.WordBuf = WordBuf
      /\ \A w \in Writes, env \in Hardware : \A m1 \in {DoWrite(Cur, env, w)} :
            \A m2 \in {DoWrite([m1 EXCEPT !.drv = <<>>], env, w)} :
               /\ m2.drv = <<>>
               /\ m2.flash = m1.flash
               /\ m2.empty_slot = m1.empty_slot

(* A write of the held non-zero value whose address would otherwise go to  *)
(* the log (snapshot half-word programmed), and a repeated write whose     *)
(* first call appended a log entry                                         *)
C6_Witness ==
    /\ started
    /\ \E a \in ByteIdx :
          /\ SameByte(a) # 0
          /\ FlashRead(flash, FEE_COMPACTED_BASE_ADDRESS + (a - (a % 2))) # FEE_EMPTY_WORD
          /\ NoFlashUse(EEPROM_WriteDataByte(Cur, NoFail, a, SameByte(a)))
    /\ \E w \in Writes : \E m1 \in {DoWrite(Cur, NoFail, w)} :
          /\ m1.empty_slot > empty_slot
          /\ DoWrite([m1 EXCEPT !.drv = <<>>], NoFail, w).drv = <<>>

(* The writes whose bytes are all in range                                 *)
InRange(w) ==
    IF w.kind = "byte" THEN w.a < FEE_DENSITY_BYTES ELSE w.a + 1 < FEE_DENSITY_BYTES

LoSame(w) == RamByte(WordBuf, w.a) = w.v % 256
HiSame(w) == RamByte(WordBuf, w.a + 1) = w.v \div 256

(* The status of a write none of whose programs fails: 0 when the RAM      *)
(* image already holds the value, and for a word at an odd address also    *)
(* when either of its bytes is already held; FLASH_COMPLETE otherwise.     *)
QuietStatus(w) ==
    IF w.kind = "byte" THEN (IF LoSame(w) THEN 0 ELSE FLASH_COMPLETE)
    ELSE IF w.a % 2 = 0 THEN (IF LoSame(w) /\ HiSame(w) THEN 0 ELSE FLASH_COMPLETE)
    ELSE (IF LoSame(w) \/ HiSame(w) THEN 0 ELSE FLASH_COMPLETE)

(* C7 as stated: every in-range write without a failing program returns    *)
(* FLASH_COMPLETE, also when the RAM image already holds the value.        *)
C7_AlwaysComplete ==
    started =>
      \A w \in {x \in Writes : InRange(x)}, env \in Hardware :
         DoWrite(Cur, env, w).st = FLASH_COMPLETE

(* C7. Write status on success: an in-range write without a failing        *)
(* program returns FLASH_COMPLETE when it changes the RAM image (for a     *)
(* word at an odd address: when it changes both bytes) and 0 otherwise.    *)
C7_WriteStatus ==
    started =>
      \A w \in {x \in Writes : InRange(x)}, env \in Hardware :
         DoWrite(Cur, env, w).st = QuietStatus(w)

(* A write that compacts and returns FLASH_COMPLETE, a write of the held   *)
(* value returning 0, and a word write at an odd address that changes one  *)
(* byte, appends a log entry and returns 0                                 *)
C7_Witness ==
    /\ started
    /\ \E w \in Writes : \E m \in {DoWrite(Cur, NoFail, w)} :
          InRange(w) /\ Len(m.cmp) = 1 /\ m.st = FLASH_COMPLETE
    /\ \E w \in Writes : \E m \in {DoWrite(Cur, NoFail, w)} :
          InRange(w) /\ m.WordBuf = WordBuf /\ m.st = 0
    /\ \E w \in Writes : \E m \in {DoWrite(Cur, NoFail, w)} :
          /\ InRange(w) /\ w.kind = "word" /\ w.a % 2 = 1
          /\ m.WordBuf # WordBuf /\ m.empty_slot > empty_slot /\ m.st = 0

(* The programs of a call that failed; OpFails leaves out the two magic    *)
(* programs of eeprom_clear, whose status the code drops.                  *)
AllFails(m) == SelectSeq(Programs(m), LAMBDA d : d.status # FLASH_COMPLETE)
OpFails(m) == SelectSeq(AllFails(m), LAMBDA d : d.line \notin {380, 381})

(* Hardware under which a program of call w fails: a failing ordinal       *)
(* beyond the programs the call makes fails nothing.                       *)
FailingIn(w) ==
    LET n == Len(Programs(DoWrite(Cur, NoFail, w)))
    IN  {env \in Failing : env.f1 <= n /\ env.f2 <= n /\ env.f1 + env.f2 > 0}

(* C8. Failure status propagation: a write during which programs of the    *)
(* direct write, the log entries or the compaction loop fail returns the   *)
(* status of the first of them to fail.                                    *)
C8_FirstFailure ==
    started =>
      \A w \in {x \in Writes : InRange(x)} : \A env \in FailingIn(w) :
         \A m \in {DoWrite(Cur, env, w)} :
            OpFails(m) # <<>> => m.st = OpFails(m)[1].status

(* The least C8 asks for: a write during which such a program fails        *)
(* returns a failure, neither 0 nor FLASH_COMPLETE (violated: a word write *)
(* at an odd address returns 0 when its first byte's program fails and its *)
(* second byte is already held)                                            *)
C8_FailureReported ==
    started =>
      \A w \in {x \in Writes : InRange(x)} : \A env \in FailingIn(w) :
         \A m \in {DoWrite(Cur, env, w)} :
            OpFails(m) # <<>> => m.st \notin {0, FLASH_COMPLETE}

(* What the code returns (holds): the status of the last failing program   *)
(* among the direct write, the log entries and the compaction loop; the    *)
(* failures of the magic programs of eeprom_clear are not reported (the    *)
(* status is that of a write without failure); a word write at an odd      *)
(* address whose second byte is already held returns 0 whatever failed.    *)
C8_LastFailure ==
    started =>
      \A w \in {x \in Writes : InRange(x)} : \A env \in FailingIn(w) :
         \A m \in {DoWrite(Cur, env, w)} :
            IF w.kind = "word" /\ w.a % 2 = 1 /\ HiSame(w) THEN m.st = 0
            ELSE IF OpFails(m) # <<>> THEN m.st = OpFails(m)[Len(OpFails(m))].status
            ELSE m.st = QuietStatus(w)

(* The magic programs of eeprom_clear are outside the programs C8 lists;   *)
(* their failures are dropped too (violated: a compacting write whose only *)
(* failing program is a magic program returns FLASH_COMPLETE)              *)
C8_MagicFailureReported ==
    started =>
      \A w \in {x \in Writes : InRange(x)} : \A env \in FailingIn(w) :
         \A m \in {DoWrite(Cur, env, w)} :
            (AllFails(m) # <<>> /\ OpFails(m) = <<>>)
               => m.st \notin {0, FLASH_COMPLETE}

(* Addresses read: the whole store, the two addresses behind it and the    *)
(* largest uint16_t                                                        *)
AllReadAddrs == (0 .. (FEE_DENSITY_BYTES + 1)) \cup {65535}

(* C9. Reads: EEPROM_ReadDataByte(a) is the RAM byte at a when a is in     *)
(* range and 0xFF otherwise; EEPROM_ReadDataWord(a) is the little-endian   *)
(* half-word of the RAM bytes a and a + 1 when both are in range and       *)
(* 0xFFFF otherwise.                                                       *)
C9_Reads ==
    started =>
      \A a \in AllReadAddrs :
         /\ EEPROM_ReadDataByte(WordBuf, a) =
               IF a < FEE_DENSITY_BYTES THEN RamByte(WordBuf, a) ELSE 255
         /\ EEPROM_ReadDataWord(WordBuf, a) =
               IF a + 1 < FEE_DENSITY_BYTES
               THEN RamByte(WordBuf, a) + 256 * RamByte(WordBuf, a + 1)
               ELSE 65535

(* A RAM image whose bytes at an odd address and the next one differ, and  *)
(* whose last byte is not 0xFF, read at aligned, unaligned and             *)
(* out-of-range addresses                                                  *)
C9_Witness ==
    /\ started
    /\ \E a \in ByteIdx :
          /\ a % 2 = 1 /\ a + 1 < FEE_DENSITY_BYTES
          /\ RamByte(WordBuf, a) # RamByte(WordBuf, a + 1)
          /\ EEPROM_ReadDataWord(WordBuf, a)
                = RamByte(WordBuf, a) + 256 * RamByte(WordBuf, a + 1)
    /\ \E a \in ByteIdx : a % 2 = 0 /\ EEPROM_ReadDataWord(WordBuf, a) \notin {0, 65535}
    /\ RamByte(WordBuf, FEE_DENSITY_BYTES - 1) = 1
    /\ EEPROM_ReadDataWord(WordBuf, FEE_DENSITY_BYTES - 1) = 65535
    /\ EEPROM_ReadDataByte(WordBuf, FEE_DENSITY_BYTES) = 255

(* C10. EEPROM_Erase from any reachable state leaves every snapshot        *)
(* half-word 0xFFFF, the magic at the start of the log (0x0FEE, then       *)
(* 0x2040), every log half-word behind the magic 0xFFFF, empty_slot at     *)
(* FEE_WRITE_LOG_BASE_ADDRESS + 4 and the RAM image all zeros.             *)
C10_Erase ==
    started =>
      \A m \in {EEPROM_Erase(Cur, NoFail)} :
         /\ \A i \in WordIdx :
               FlashRead(m.flash, FEE_COMPACTED_BASE_ADDRESS + 2 * i) = 65535
         /\ FlashRead(m.flash, FEE_WRITE_LOG_BASE_ADDRESS) = 4078
         /\ FlashRead(m.flash, FEE_WRITE_LOG_BASE_ADDRESS + 2) = 8256
         /\ \A i \in FlashIdx :
               FEE_PAGE_BASE_ADDRESS + 2 * i >= FEE_WRITE_LOG_BASE_ADDRESS + 4
                  => m.flash[i] = 65535
         /\ m.empty_slot = FEE_WRITE_LOG_BASE_ADDRESS + 4
         /\ \A i \in WordIdx : m.WordBuf[i] = 0

(* EEPROM_Erase on a store with a non-zero RAM image, a programmed         *)
(* snapshot and log entries; and on one whose magic has been overwritten   *)
C10_Witness ==
    /\ started
    /\ WordBuf # ZeroBuf
    /\ \E i \in WordIdx : flash[i] # FEE_EMPTY_WORD
    /\ \/ empty_slot > FEE_WRITE_LOG_BASE_ADDRESS + 4
       \/ MagicRead(flash) # MagicWords
    /\ EEPROM_Erase(Cur, NoFail).empty_slot = FEE_WRITE_LOG_BASE_ADDRESS + 4
    /\ EEPROM_Erase(Cur, NoFail).WordBuf = ZeroBuf

(* The programs of a call that append to the log: the call sites of        *)
(* eeprom_write_log_word_entry (485, 490) and eeprom_write_log_byte_entry  *)
(* (516)                                                                   *)
LogLines == {485, 490, 516}
LogPrograms(m) == SelectSeq(Programs(m), LAMBDA d : d.line \in LogLines)

(* C11. Monotonic log use: a write that runs no compaction, made from any  *)
(* reachable state and whether or not its programs succeed, never lowers   *)
(* empty_slot; empty_slot ends one half-word further for each log          *)
(* half-word the write programmed, and the k-th of these programs is at    *)
(* the k-th half-word from the empty_slot the write started with.          *)
C11_MonotonicLog ==
    started =>
      \A w \in Writes, env \in Failing \cup Hardware :
         \A m \in {DoWrite(Cur, env, w)} :
            Len(m.cmp) = 0 =>
              \A lp \in {LogPrograms(m)} :
                 /\ m.empty_slot >= empty_slot
                 /\ m.empty_slot = empty_slot + 2 * Len(lp)
                 /\ \A k \in 1 .. Len(lp) : lp[k].addr = empty_slot + 2 * (k - 1)

(* A second entry appended behind a first one: the log holds one entry,    *)
(* and a write that needs the log programs the next slot                   *)
C11_Witness ==
    /\ started
    /\ empty_slot = FEE_WRITE_LOG_BASE_ADDRESS + 6
    /\ FlashRead(flash, FEE_WRITE_LOG_BASE_ADDRESS + 4) # FEE_EMPTY_WORD
    /\ \E w \in Writes : \A m \in {DoWrite(Cur, NoFail, w)} :
          /\ Len(m.cmp) = 0
          /\ Len(LogPrograms(m)) = 1
          /\ LogPrograms(m)[1].addr = empty_slot
          /\ m.empty_slot = empty_slot + 2

(* The flash an eeprom_clear leaves: everything erased but the magic       *)
ClearedFlash ==
    [i \in FlashIdx |->
        IF FEE_PAGE_BASE_ADDRESS + 2 * i = FEE_WRITE_LOG_BASE_ADDRESS THEN 4078
        ELSE IF FEE_PAGE_BASE_ADDRESS + 2 * i = FEE_WRITE_LOG_BASE_ADDRESS + 2 THEN 8256
        ELSE 65535] @@ <<>>

ErasedPages(m) ==
    {m.drv[i].addr : i \in {j \in 1 .. Len(m.drv) : m.drv[j].fn = "erase"}}

(* C12. Missing magic at init: from every reachable flash whose first two  *)
(* log half-words are not 0x0FEE, 0x2040, a power-up (EEPROM_Init on a     *)
(* zeroed RAM image, programs succeeding) erases every page, leaves the    *)
(* flash erased but for the magic, programs nothing but the magic (no log  *)
(* entry is applied: the RAM image is the complement of the snapshot as it *)
(* was before the clear), ends with empty_slot at                          *)
(* FEE_WRITE_LOG_BASE_ADDRESS + 4 and returns FEE_DENSITY_BYTES.           *)
C12_MissingMagic ==
    MagicRead(flash) # MagicWords =>
      \A m \in {PowerUp(Cur)} :
         /\ ErasedPages(m) = {FEE_PAGE_BASE_ADDRESS + p * FEE_PAGE_SIZE :
                                 p \in 0 .. (FEE_PAGE_COUNT - 1)}
         /\ m.flash = ClearedFlash
         /\ \A i \in 1 .. Len(Programs(m)) : Programs(m)[i].line \in {380, 381}
         /\ m.empty_slot = FEE_WRITE_LOG_BASE_ADDRESS + 4
         /\ m.st = FEE_DENSITY_BYTES
         /\ \A i \in WordIdx :
               m.WordBuf[i] =
                  65535 - FlashRead(flash, FEE_COMPACTED_BASE_ADDRESS + 2 * i)

(* A store in use whose magic has been lost while its snapshot holds data: *)
(* the power-up clears the flash and keeps the snapshot's values in RAM    *)
C12_Witness ==
    /\ started
    /\ MagicRead(flash) # MagicWords
    /\ \E i \in WordIdx :
          FlashRead(flash, FEE_COMPACTED_BASE_ADDRESS + 2 * i) # FEE_EMPTY_WORD
    /\ PowerUp(Cur).WordBuf # ZeroBuf
    /\ PowerUp(Cur).flash = ClearedFlash
    /\ PowerUp(Cur).empty_slot = FEE_WRITE_LOG_BASE_ADDRESS + 4

(* The empty-slot invariant of a machine at the return of an operation     *)
EmptySlotOk(m) ==
    /\ m.empty_slot % 2 = 0
    /\ m.empty_slot >= FEE_WRITE_LOG_BASE_ADDRESS + 4
    /\ m.empty_slot <= FEE_WRITE_LOG_LAST_ADDRESS
    /\ \A a \in m.empty_slot .. (FEE_WRITE_LOG_LAST_ADDRESS - 1) :
          a % 2 = 0 => FlashRead(m.flash, a) = FEE_EMPTY_WORD

(* C13. Empty-slot invariant: after EEPROM_Init and after every write or   *)
(* erase that returns with its programs succeeding and no power loss       *)
(* inside a write, empty_slot is a half-word-aligned address in            *)
(* [FEE_WRITE_LOG_BASE_ADDRESS + 4, FEE_WRITE_LOG_LAST_ADDRESS] and every  *)
(* log half-word from empty_slot to the end of the log reads 0xFFFF.       *)
C13_EmptySlot ==
    (started /\ ~torn) => EmptySlotOk(Cur)

(* The log region of fl holds the magic followed by 0xFFFF half-words      *)
LogOnlyMagic(fl) ==
    /\ MagicRead(fl) = MagicWords
    /\ \A a \in (FEE_WRITE_LOG_BASE_ADDRESS + 4) .. (FEE_WRITE_LOG_LAST_ADDRESS - 1) :
          a % 2 = 0 => FlashRead(fl, a) = FEE_EMPTY_WORD

(* Every snapshot half-word of fl is the complement of the RAM half-word   *)
SnapshotIsRam(fl, buf) ==
    \A i \in WordIdx :
       FlashRead(fl, FEE_COMPACTED_BASE_ADDRESS + 2 * i) = 65535 - buf[i]

(* C14. Compaction post-condition: a write made from any state reached     *)
(* without a power loss inside a write, whose programs all succeed and     *)
(* which ran a compaction, returns with empty_slot at                      *)
(* FEE_WRITE_LOG_BASE_ADDRESS + 4, the log region holding the magic        *)
(* followed by 0xFFFF half-words, and every snapshot half-word the         *)
(* complement of the RAM half-word.                                        *)
C14_CompactionPost ==
    (started /\ ~torn) =>
      \A w \in Writes : \A m \in {DoWrite(Cur, NoFail, w)} :
         Len(m.cmp) > 0 =>
            /\ m.empty_slot = FEE_WRITE_LOG_BASE_ADDRESS + 4
            /\ LogOnlyMagic(m.flash)
            /\ SnapshotIsRam(m.flash, m.WordBuf)

(* Every program of the call that ended in m found its half-word erased    *)
ProgramsOnErased(m) ==
    \A i \in 1 .. Len(m.drv) :
       m.drv[i].fn = "program" => m.drv[i].old = FEE_EMPTY_WORD

(* C15. Every flash program targets an erased half-word: from every state  *)
(* reached without a power loss inside a write, each FLASH_ProgramHalfWord *)
(* made by a power-up, an erase or a write whose programs succeed is made  *)
(* when the half-word at its address reads 0xFFFF.                         *)
C15_ProgramsErased ==
    (started /\ ~torn) =>
      /\ ProgramsOnErased(PowerUp(Cur))
      /\ ProgramsOnErased(EEPROM_Erase(Cur, NoFail))
      /\ \A w \in Writes : ProgramsOnErased(DoWrite(Cur, NoFail, w))

(* C16. BAD_ADDRESS implies no state change: whenever a byte or word write *)
(* made from any reachable state returns FLASH_BAD_ADDRESS, for any        *)
(* Address, the RAM image, the flash and empty_slot are as they were       *)
(* before the call and no flash program or erase was made.                 *)
C16_BadAddressNoChange ==
    started =>
      \A w \in Writes, env \in Hardware : \A m \in {DoWrite(Cur, env, w)} :
         m.st = FLASH_BAD_ADDRESS => Untouched(m)

(* Every erase and program of the call that ended in m was made with the   *)
(* flash unlocked, and the flash is locked at the return                   *)
Bracketed(m) ==
    /\ \A i \in 1 .. Len(m.drv) : m.drv[i].locked = FALSE
    /\ m.locked = TRUE

(* C17. Unlock/lock bracketing: the flash is locked between operations,    *)
(* and for EEPROM_Init, EEPROM_Erase and every byte or word write made     *)
(* from any reachable state, whether its programs succeed or fail and      *)
(* whether or not it compacts, every FLASH_ErasePage and                   *)
(* FLASH_ProgramHalfWord is made with the flash unlocked and the flash is  *)
(* locked when the operation returns.                                      *)
C17_Bracketing ==
    /\ locked = TRUE
    /\ \A env \in Failing \cup Hardware :
          /\ Bracketed(EEPROM_Init(Cur, env))
          /\ Bracketed(EEPROM_Erase(Cur, env))
          /\ \A w \in Writes : Bracketed(DoWrite(Cur, env, w))

(* A write that compacts while one of the compaction's programs fails:     *)
(* erases and programs all unlocked, flash locked at the return            *)
C17_Witness ==
    /\ started
    /\ \E w \in Writes, env \in Failing : \E m \in {DoWrite(Cur, env, w)} :
          /\ Len(m.cmp) > 0
          /\ \E i \in 1 .. Len(m.drv) : m.drv[i].fn = "erase"
          /\ \E i \in 1 .. Len(m.drv) :
                m.drv[i].line = 416 /\ m.drv[i].status # FLASH_COMPLETE
          /\ m.st # FLASH_COMPLETE
          /\ Bracketed(m)

(* The machine after a power-up from the current state, ready for a call   *)
Rebooted == [PowerUp(Cur) EXCEPT !.drv = <<>>, !.st = 0, !.line = 0]

(* The writes that cover one RAM half-word: byte writes and word writes at *)
(* even addresses (a word write at an odd address is two byte writes)      *)
OneHalfWord(w) == w.kind = "byte" \/ w.a % 2 = 0

(* The RAM half-word at w.a & ~1 once write w has been applied to buf      *)
NewHalfWord(buf, w) ==
    LET old == buf[w.a \div 2] IN
    IF w.kind = "word" THEN w.v
    ELSE IF w.a % 2 = 0 THEN (old \div 256) * 256 + w.v
    ELSE (old % 256) + 256 * w.v

SnapshotAddr(w) == FEE_COMPACTED_BASE_ADDRESS + 2 * (w.a \div 2)

(* An in-range write of one RAM half-word that changes it                  *)
Changes(b, w) ==
    /\ OneHalfWord(w)
    /\ InRange(w)
    /\ NewHalfWord(b.WordBuf, w) # b.WordBuf[w.a \div 2]

(* C18. Direct snapshot path: made from any reachable state, or from the   *)
(* state a power-up from it gives, a value-changing in-range write of one  *)
(* RAM half-word whose snapshot half-word reads 0xFFFF stores the new      *)
(* value in RAM, leaves empty_slot alone and returns FLASH_COMPLETE; when  *)
(* the new RAM half-word is not 0 it makes exactly one driver call, the    *)
(* program of the complement of the new half-word at the snapshot address, *)
(* and when it is 0 it makes no driver call at all.                        *)
C18_DirectPath ==
    started =>
      \A b \in {Cur, Rebooted}, w \in Writes, env \in Hardware :
         (Changes(b, w) /\ FlashRead(b.flash, SnapshotAddr(w)) = FEE_EMPTY_WORD) =>
            \A m \in {DoWrite(b, env, w)}, nw \in {NewHalfWord(b.WordBuf, w)} :
               /\ \A i \in WordIdx :
                     m.WordBuf[i] = IF i = w.a \div 2 THEN nw ELSE b.WordBuf[i]
               /\ m.empty_slot = b.empty_slot
               /\ m.st = FLASH_COMPLETE
               /\ Len(m.cmp) = 0
               /\ IF nw = 0
                  THEN m.drv = <<>> /\ m.flash = b.flash
                  ELSE /\ Len(m.drv) = 1
                       /\ m.drv[1].fn = "program"
                       /\ m.drv[1].addr = SnapshotAddr(w)
                       /\ m.drv[1].value = 65535 - nw
                       /\ \A i \in FlashIdx :
                             m.flash[i] =
                                IF FEE_PAGE_BASE_ADDRESS + 2 * i = SnapshotAddr(w)
                                THEN 65535 - nw ELSE b.flash[i]

(* Both cases at one state: a write that programs an erased snapshot       *)
(* half-word directly; and, after a power-up that found the magic lost and *)
(* kept the snapshot's values in RAM over an erased flash, a write that    *)
(* zeroes a non-zero RAM half-word without any driver call                 *)
C18_Witness ==
    /\ started
    /\ \E w \in Writes : \E m \in {DoWrite(Cur, NoFail, w)} :
          /\ Changes(Cur, w)
          /\ FlashRead(flash, SnapshotAddr(w)) = FEE_EMPTY_WORD
          /\ Len(m.drv) = 1
          /\ m.drv[1].line = 443
          /\ m.empty_slot = empty_slot
    /\ \E w \in Writes : \E b \in {Rebooted} : \E m \in {DoWrite(b, NoFail, w)} :
          /\ Changes(b, w)
          /\ FlashRead(b.flash, SnapshotAddr(w)) = FEE_EMPTY_WORD
          /\ NewHalfWord(b.WordBuf, w) = 0
          /\ m.drv = <<>>
          /\ m.st = FLASH_COMPLETE

(* Write w from b falls through to the log: it changes one RAM half-word   *)
(* whose snapshot half-word is already programmed                          *)
NeedsLog(b, w) ==
    /\ Changes(b, w)
    /\ FlashRead(b.flash, SnapshotAddr(w)) # FEE_EMPTY_WORD

(* The half-words the log entry of write w holds, by the encoding rules:   *)
(* Byte-Entry below FEE_BYTE_RANGE, else Word-Encoded 0 / 1 or Word-Next   *)
(* for the even address A = w.a & ~1 and the new RAM half-word nw          *)
EntryFor(w, nw) ==
    LET A == 2 * (w.a \div 2) IN
    IF w.a < 128 THEN <<w.a * 256 + w.v>>
    ELSE IF nw = 0 THEN <<32768 + (A \div 2)>>
    ELSE IF nw = 1 THEN <<40960 + (A \div 2)>>
    ELSE <<57344 + ((A - 128) \div 2), 65535 - nw>>

(* C19. Log encoding selection: a value-changing byte write below address  *)
(* 128, or a value-changing byte or even-address word write at 128 or      *)
(* above, that falls through to the log from any reachable state with room *)
(* for its entry makes exactly the driver calls that program the entry at  *)
(* empty_slot: the half-word (Address << 8) | byte below 128; 0x8000 |     *)
(* (A >> 1) for a new RAM half-word of 0, 0xA000 | (A >> 1) for 1, and     *)
(* otherwise 0xE000 | ((A - 0x80) >> 1) followed by the complement of the  *)
(* new RAM half-word.                                                      *)
C19_LogEncoding ==
    started =>
      \A w \in Writes, env \in Hardware :
         (NeedsLog(Cur, w) /\ (w.kind = "byte" \/ w.a >= 128)) =>
            \A e \in {EntryFor(w, NewHalfWord(WordBuf, w))} :
               empty_slot + 2 * Len(e) <= FEE_WRITE_LOG_LAST_ADDRESS =>
                  \A m \in {DoWrite(Cur, env, w)} :
                     /\ Len(m.drv) = Len(e)
                     /\ \A k \in 1 .. Len(e) :
                           /\ m.drv[k].fn = "program"
                           /\ m.drv[k].addr = empty_slot + 2 * (k - 1)
                           /\ m.drv[k].value = e[k]
                     /\ m.empty_slot = empty_slot + 2 * Len(e)

(* One state with an empty log from which all four encodings are written:  *)
(* a Byte-Entry, a Word-Encoded 0, a Word-Encoded 1 and a Word-Next        *)
C19_Witness ==
    /\ started
    /\ empty_slot = FEE_WRITE_LOG_BASE_ADDRESS + 4
    /\ \E w \in Writes : \E m \in {DoWrite(Cur, NoFail, w)} :
          /\ NeedsLog(Cur, w) /\ w.kind = "byte" /\ w.a < 128
          /\ Len(m.drv) = 1 /\ m.drv[1].line = 516
          /\ m.drv[1].value = w.a * 256 + w.v
    /\ \E w \in Writes : \E m \in {DoWrite(Cur, NoFail, w)} :
          /\ NeedsLog(Cur, w) /\ w.a >= 128 /\ NewHalfWord(WordBuf, w) = 0
          /\ Len(m.drv) = 1 /\ m.drv[1].line = 485
          /\ m.drv[1].value \div 8192 = 4
    /\ \E w \in Writes : \E m \in {DoWrite(Cur, NoFail, w)} :
          /\ NeedsLog(Cur, w) /\ w.a >= 128 /\ NewHalfWord(WordBuf, w) = 1
          /\ Len(m.drv) = 1 /\ m.drv[1].line = 485
          /\ m.drv[1].value \div 8192 = 5
    /\ \E w \in Writes : \E m \in {DoWrite(Cur, NoFail, w)} :
          /\ NeedsLog(Cur, w) /\ w.a >= 128 /\ NewHalfWord(WordBuf, w) > 1
          /\ Len(m.drv) = 2 /\ m.drv[1].line = 485 /\ m.drv[2].line = 490
          /\ m.drv[1].value \div 8192 = 7
          /\ m.drv[2].value = 65535 - NewHalfWord(WordBuf, w)

(* The status eeprom_compact returns: that of the last of its snapshot     *)
(* programs (line 416) to fail, else FLASH_COMPLETE                        *)
CompactStatus(m) ==
    LET f == SelectSeq(Programs(m),
                       LAMBDA d : d.line = 416 /\ d.status # FLASH_COMPLETE)
    IN  IF Len(f) = 0 THEN FLASH_COMPLETE ELSE f[Len(f)].status

(* C20. Compaction trigger: for every write made from any reachable state, *)
(* whether its programs succeed or fail, each log program lies wholly      *)
(* before FEE_WRITE_LOG_LAST_ADDRESS, and the first half-word of a         *)
(* Word-Next entry is programmed only with room for its second; and when   *)
(* the entry of a write of one RAM half-word that falls through to the log *)
(* does not fit, the write compacts once, programs nothing in the log and  *)
(* returns the status of the compaction.                                   *)
C20_CompactionTrigger ==
    started =>
      \A w \in Writes, env \in Failing \cup Hardware :
         \A m \in {DoWrite(Cur, env, w)} :
            /\ \A lp \in {LogPrograms(m)} : \A k \in 1 .. Len(lp) :
                  /\ lp[k].addr + 2 <= FEE_WRITE_LOG_LAST_ADDRESS
                  /\ (lp[k].line = 485 /\ lp[k].value \div 8192 = 7)
                        => lp[k].addr + 4 <= FEE_WRITE_LOG_LAST_ADDRESS
            /\ (/\ NeedsLog(Cur, w)
                /\ (w.kind = "byte" \/ w.a >= 128)
                /\ empty_slot + 2 * Len(EntryFor(w, NewHalfWord(WordBuf, w)))
                      > FEE_WRITE_LOG_LAST_ADDRESS)
                  => /\ Len(m.cmp) = 1
                     /\ LogPrograms(m) = <<>>
                     /\ m.st = CompactStatus(m)

(* One free slot left: a Word-Encoded entry is programmed in it, a         *)
(* Word-Next entry does not fit and the write compacts, returning the      *)
(* failure of one of the compaction's programs                             *)
C20_Witness ==
    /\ started
    /\ empty_slot = FEE_WRITE_LOG_LAST_ADDRESS - 2
    /\ \E w \in Writes : \E m \in {DoWrite(Cur, NoFail, w)} :
          /\ NeedsLog(Cur, w)
          /\ Len(LogPrograms(m)) = 1
          /\ LogPrograms(m)[1].addr = FEE_WRITE_LOG_LAST_ADDRESS - 2
          /\ Len(m.cmp) = 0
    /\ \E w \in Writes, env \in Failing : \E m \in {DoWrite(Cur, env, w)} :
          /\ NeedsLog(Cur, w)
          /\ Len(EntryFor(w, NewHalfWord(WordBuf, w))) = 2
          /\ Len(m.cmp) = 1
          /\ LogPrograms(m) = <<>>
          /\ m.st \in {FLASH_ERROR_PG, FLASH_ERROR_WRP}

(***************************************************************************)
(* EEPROM_Init on arbitrary flash contents: the flash found at the first   *)
(* power-up holds any snapshot, any two magic half-words and any log, and  *)
(* the only operation is EEPROM_Init.                                      *)
(***************************************************************************)
(* Log half-words: erased; Byte-Entries for bytes 0, 1 and 127;            *)
(* Word-Encoded 0 for address 128, Word-Encoded 1 for 130 and, out of      *)
(* range, for 132 and 16382; Reserved (0xC000, 0xDFFF); Word-Next for 128  *)
(* and 130 and, out of range, for 132 and 16508.  As the second half-word  *)
(* of a Word-Next entry each is the complement of the entry's value.       *)
LogWords ==
    {65535, 0, 257, 32514, 32832, 41025, 41026, 49151, 49152, 57343,
     57344, 57345, 57346, 65534}

(* First and second magic half-word: right, erased, overwritten            *)
MagicLo == {4078, 65535, 64}
MagicHi == {8256, 65535}

(* Snapshot half-words 0 and 64 (bytes 0-1 and 128-129)                    *)
SnapshotWords == {65535, 65279, 65534}

AnyFlash ==
    {[i \in FlashIdx |->
         IF i = 0 THEN s0
         ELSE IF i = FEE_BYTE_RANGE \div 2 THEN s1
         ELSE IF FEE_PAGE_BASE_ADDRESS + 2 * i = FEE_WRITE_LOG_BASE_ADDRESS THEN m0
         ELSE IF FEE_PAGE_BASE_ADDRESS + 2 * i = FEE_WRITE_LOG_BASE_ADDRESS + 2 THEN m1
         ELSE IF FEE_PAGE_BASE_ADDRESS + 2 * i = FEE_WRITE_LOG_BASE_ADDRESS + 4 THEN l0
         ELSE IF FEE_PAGE_BASE_ADDRESS + 2 * i = FEE_WRITE_LOG_BASE_ADDRESS + 6 THEN l1
         ELSE 65535] @@ <<>>
       : s0 \in SnapshotWords, s1 \in SnapshotWords, m0 \in MagicLo, m1 \in MagicHi,
         l0 \in LogWords, l1 \in LogWords}

InitAny ==
    /\ WordBuf = ZeroBuf
    /\ flash \in AnyFlash
    /\ empty_slot = 0
    /\ locked = TRUE
    /\ started = FALSE
    /\ changes = 0
    /\ shadow = ZeroBytes
    /\ torn = FALSE

SpecInit == InitAny /\ [][Boot]_vars

(* The stores the log of fl asks for, in log order, read by the entry      *)
(* formats: Byte-Entry below 0x8000, Word-Encoded 0 / 1 at 0x8000 and      *)
(* 0xA000, Reserved at 0xC000 (no store), Word-Next from 0xE000 with the   *)
(* complement of its value in the next half-word (no store when that       *)
(* value is 0, an incomplete entry).  The list ends at the first 0xFFFF    *)
(* primary half-word and at the end of the log.                            *)
RECURSIVE LogStores(_, _)
LogStores(fl, a) ==
    IF a >= FEE_WRITE_LOG_LAST_ADDRESS THEN <<>>
    ELSE
      LET e == FlashRead(fl, a) IN
      IF e = 65535 THEN <<>>
      ELSE IF e < 32768
      THEN <<[kind |-> "byte", a |-> e \div 256, v |-> e % 256]>>
              \o LogStores(fl, a + 2)
      ELSE IF e >= 57344
      THEN IF a + 2 >= FEE_WRITE_LOG_LAST_ADDRESS THEN <<>>
           ELSE (IF FlashRead(fl, a + 2) = 65535 THEN <<>>
                 ELSE <<[kind |-> "word", a |-> 2 * (e - 57344) + 128,
                         v |-> 65535 - FlashRead(fl, a + 2)]>>)
                   \o LogStores(fl, a + 4)
      ELSE IF e >= 49152 THEN LogStores(fl, a + 2)
      ELSE IF e >= 40960
      THEN <<[kind |-> "word", a |-> 2 * (e - 40960), v |-> 1]>>
              \o LogStores(fl, a + 2)
      ELSE <<[kind |-> "word", a |-> 2 * (e - 32768), v |-> 0]>>
              \o LogStores(fl, a + 2)

(* The address of the first 0xFFFF primary half-word of the log of fl, or  *)
(* the end of the log                                                      *)
RECURSIVE LogEnd(_, _)
LogEnd(fl, a) ==
    IF a >= FEE_WRITE_LOG_LAST_ADDRESS THEN FEE_WRITE_LOG_LAST_ADDRESS
    ELSE IF FlashRead(fl, a) = 65535 THEN a
    ELSE IF FlashRead(fl, a) >= 57344 THEN LogEnd(fl, a + 4)
    ELSE LogEnd(fl, a + 2)

(* buf after the stores of ws that address bytes inside                    *)
(* [0, FEE_DENSITY_BYTES), the others being discarded                      *)
RECURSIVE StoreAll(_, _)
StoreAll(buf, ws) ==
    IF ws = <<>> THEN buf
    ELSE LET w == Head(ws) IN
         StoreAll(IF w.a < FEE_DENSITY_BYTES
                  THEN [i \in WordIdx |->
                           IF i = w.a \div 2 THEN NewHalfWord(buf, w) ELSE buf[i]]
                          @@ <<>>
                  ELSE buf,
                  Tail(ws))

(* C21. Replay tolerance: for any snapshot and any log contents behind a   *)
(* valid magic, EEPROM_Init makes no driver call and leaves in RAM the     *)
(* complement of the snapshot with the log's in-range stores applied in    *)
(* order: word entries decoding to an address >= FEE_DENSITY_BYTES and     *)
(* Reserved entries change nothing and the entries behind them are still   *)
(* applied; empty_slot is the address of the first 0xFFFF primary          *)
(* half-word, or the end of the log.                                       *)
C21_ReplayTolerance ==
    MagicRead(flash) = MagicWords =>
      \A m \in {EEPROM_Init(Cur, NoFail)} :
         /\ m.drv = <<>>
         /\ m.flash = flash
         /\ DOMAIN m.WordBuf = WordIdx
         /\ m.WordBuf =
               StoreAll([i \in WordIdx |->
                            65535 - FlashRead(flash, FEE_COMPACTED_BASE_ADDRESS + 2 * i)]
                           @@ <<>>,
                        LogStores(flash, FEE_WRITE_LOG_BASE_ADDRESS + 4))
         /\ m.empty_slot = LogEnd(flash, FEE_WRITE_LOG_BASE_ADDRESS + 4)
         /\ m.st = FEE_DENSITY_BYTES

(* A log whose first entry is a word entry for an address beyond the store *)
(* and whose second entry is in range: the first changes nothing, the      *)
(* second is applied and empty_slot is the end of the log                  *)
C21_Witness ==
    /\ started
    /\ EEPROM_ReadDataByte(WordBuf, 127) = 2
    /\ empty_slot = FEE_WRITE_LOG_LAST_ADDRESS
    /\ MagicRead(flash) = MagicWords
    /\ \E e \in {41026, 49151} : FlashRead(flash, FEE_WRITE_LOG_BASE_ADDRESS + 4) = e
    /\ FlashRead(flash, FEE_WRITE_LOG_BASE_ADDRESS + 6) = 32514
    /\ \A m \in {EEPROM_Init(Cur, NoFail)} :
          /\ EEPROM_ReadDataByte(m.WordBuf, 127) = 2
          /\ \A i \in WordIdx :
                i # 63 => m.WordBuf[i] =
                   65535 - FlashRead(flash, FEE_COMPACTED_BASE_ADDRESS + 2 * i)
          /\ m.empty_slot = FEE_WRITE_LOG_LAST_ADDRESS

(* The machine a call returned, ready for the next call                    *)
Returned(m) ==
    [m EXCEPT !.st = 0, !.line = 0, !.drv = <<>>, !.cmp = <<>>, !.off = FALSE,
              !.wdt = 0]

(* The RAM image holds the value of write w                                *)
Holds(buf, w) ==
    IF w.kind = "byte" THEN EEPROM_ReadDataByte(buf, w.a) = w.v
    ELSE EEPROM_ReadDataWord(buf, w.a) = w.v

(* C22. Retry after flash failure: when a write made from any reachable    *)
(* state returns a driver error status, the RAM image holds the new value, *)
(* and the same write made again goes through the persistence cascade      *)
(* again: it makes at least one FLASH_ProgramHalfWord call.                *)
C22_RetryPrograms ==
    started =>
      \A w \in Writes : \A env \in FailingIn(w) : \A m \in {DoWrite(Cur, env, w)} :
         m.st \in {FLASH_ERROR_PG, FLASH_ERROR_WRP} =>
            /\ Holds(m.WordBuf, w)
            /\ Programs(DoWrite(Returned(m), NoFail, w)) # <<>>

(* What the code does instead (holds): the same write made again finds the *)
(* RAM image holding the value, returns 0 and makes no driver call, so the *)
(* flash stays as the failed write left it.                                *)
C22_RetrySkipped ==
    started =>
      \A w \in Writes : \A env \in FailingIn(w) : \A m \in {DoWrite(Cur, env, w)} :
         m.st \in {FLASH_ERROR_PG, FLASH_ERROR_WRP} =>
            /\ Holds(m.WordBuf, w)
            /\ \A r \in {DoWrite(Returned(m), NoFail, w)} :
                  r.drv = <<>> /\ r.st = 0 /\ r.flash = m.flash

(* The iterations the replay loop of EEPROM_Init makes over the log of fl: *)
(* one per primary half-word, the 0xFFFF one that ends it included         *)
RECURSIVE ReplayIterations(_, _)
ReplayIterations(fl, a) ==
    IF a >= FEE_WRITE_LOG_LAST_ADDRESS THEN 0
    ELSE IF FlashRead(fl, a) = 65535 THEN 1
    ELSE IF FlashRead(fl, a) >= 57344 THEN 1 + ReplayIterations(fl, a + 4)
    ELSE 1 + ReplayIterations(fl, a + 2)

(* The iterations of the loop of one eeprom_compact: one per RAM half-word *)
CompactIterations == FEE_DENSITY_BYTES \div 2

(* C23. Watchdog kicking: from every reachable state, EEPROM_Init calls    *)
(* watchdog_update once in each iteration of its replay loop, and a write  *)
(* that compacts calls it at least once in each iteration of the           *)
(* compaction loop.                                                        *)
C23_Watchdog ==
    started =>
      /\ \A m \in {EEPROM_Init(Cur, NoFail)} :
            m.wdt = ReplayIterations(m.flash, FEE_WRITE_LOG_BASE_ADDRESS + 4)
      /\ \A w \in Writes : \A m \in {DoWrite(Cur, NoFail, w)} :
            m.wdt >= Len(m.cmp) * CompactIterations

(* The part of C23 about EEPROM_Init alone (holds, for every flash         *)
(* contents): one watchdog_update for each iteration of the replay loop    *)
C23_InitKicks ==
    \A m \in {EEPROM_Init(Cur, NoFail)} :
       m.wdt = ReplayIterations(m.flash, FEE_WRITE_LOG_BASE_ADDRESS + 4)

(* The part of C23 about compaction, at its weakest: a write that compacts *)
(* calls watchdog_update at least once (violated)                          *)
C23_CompactKicks ==
    started =>
      \A w \in Writes : \A m \in {DoWrite(Cur, NoFail, w)} :
         Len(m.cmp) > 0 => m.wdt > 0

(* C24. Magic integrity: in every state reached after EEPROM_Init by       *)
(* writes and erases whose programs succeed, with no power loss inside a   *)
(* write, the half-words at FEE_WRITE_LOG_BASE_ADDRESS and                 *)
(* FEE_WRITE_LOG_BASE_ADDRESS + 2 hold 0x0FEE and 0x2040, and no write     *)
(* made from such a state programs a log entry below                       *)
(* FEE_WRITE_LOG_BASE_ADDRESS + 4.                                         *)
C24_MagicIntegrity ==
    (started /\ ~torn) =>
      /\ FlashRead(flash, FEE_WRITE_LOG_BASE_ADDRESS) = 4078
      /\ FlashRead(flash, FEE_WRITE_LOG_BASE_ADDRESS + 2) = 8256
      /\ \A w \in Writes : \A lp \in {LogPrograms(DoWrite(Cur, NoFail, w))} :
            \A k \in 1 .. Len(lp) : lp[k].addr >= FEE_WRITE_LOG_BASE_ADDRESS + 4

(* C25. Init idempotence: for any flash contents, in the state an          *)
(* EEPROM_Init has left, another EEPROM_Init with no operation in between  *)
(* leaves the same RAM image and the same empty_slot.                      *)
C25_InitIdempotent ==
    started =>
      \A m \in {EEPROM_Init(Cur, NoFail)} :
         /\ m.WordBuf = WordBuf
         /\ m.empty_slot = empty_slot

(* What holds instead under SpecInit, for any flash contents: the second   *)
(* EEPROM_Init                                                             *)
(* changes no flash and leaves the same empty_slot, and it leaves the same *)
(* RAM image unless the first one found the magic missing over a snapshot  *)
(* that was not erased (then the RAM image held the old snapshot's values  *)
(* and the second EEPROM_Init leaves it all zeros).                        *)
C25_SecondInit ==
    started =>
      \A m \in {EEPROM_Init(Cur, NoFail)} :
         /\ m.flash = flash
         /\ m.drv = <<>>
         /\ m.empty_slot = empty_slot
         /\ \/ m.WordBuf = WordBuf
            \/ /\ flash = ClearedFlash
               /\ m.WordBuf = ZeroBuf

====
